---- MODULE Spec2Model ----
(***************************************************************************)
(* Student-records CRUD: the console adapter (app/app.py) and the web      *)
(* adapter (app/flask_app.py) over one PostgreSQL table `students`.        *)
(*                                                                         *)
(* A Python str is a sequence of one-character strings.  The character     *)
(* U+00B2 (SUPERSCRIPT TWO) is written "^2".  Python's None is the value    *)
(* None below, which no str equals.                                        *)
(***************************************************************************)
EXTENDS Integers, Sequences, FiniteSets, TLC

VARIABLES subject, verdict, rows, nextId, everIds, console, last, tx, rival

vars == <<subject, verdict, rows, nextId, everIds, console, last, tx, rival>>

(***************************************************************************)
(* Bounds of the model.                                                    *)
(***************************************************************************)
\* longest string handed to the email syntax check
MaxLen == 6
\* largest student_id the sequence hands out before inserts stop
MaxId == 2
\* most requests in flight (between cur.execute and the end of the with
\* block) at once
MaxFlight == 2

(***************************************************************************)
(* Characters and str methods.                                             *)
(***************************************************************************)
None == <<"None">>

Whitespace == {" ", "\t", "\n", "\r"}

AsciiDigits == {"0", "1", "2", "3", "4", "5", "6", "7", "8", "9"}

\* str.isdigit() is also true of digits int() does not take, such as U+00B2
OtherDigits == {"^2"}

DigitVal(c) ==
    CASE c = "0" -> 0 [] c = "1" -> 1 [] c = "2" -> 2 [] c = "3" -> 3
      [] c = "4" -> 4 [] c = "5" -> 5 [] c = "6" -> 6 [] c = "7" -> 7
      [] c = "8" -> 8 [] c = "9" -> 9

LowerChar(c) ==
    CASE c = "A" -> "a" [] c = "B" -> "b" [] c = "X" -> "x" [] c = "Y" -> "y"
      [] OTHER -> c

\* str.lower()
lower(s) == [i \in 1..Len(s) |-> LowerChar(s[i])]

RECURSIVE lstrip(_)
lstrip(s) ==
    IF s # <<>> /\ Head(s) \in Whitespace THEN lstrip(Tail(s)) ELSE s

RECURSIVE rstrip(_)
rstrip(s) ==
    IF s # <<>> /\ s[Len(s)] \in Whitespace
    THEN rstrip(SubSeq(s, 1, Len(s) - 1))
    ELSE s

\* str.strip()
strip(s) == rstrip(lstrip(s))

\* (s or "")
OrEmpty(s) == IF s = None THEN <<>> ELSE s

\* str.isdigit()
isdigit(s) ==
    /\ s # <<>>
    /\ \A i \in 1..Len(s) : s[i] \in AsciiDigits \cup OtherDigits

\* int(s) of a str that passed strip() and isdigit(): ValueError on a digit
\* that is no decimal digit
IntRaises(s) == \E i \in 1..Len(s) : s[i] \notin AsciiDigits

RECURSIVE int(_)
int(s) ==
    IF s = <<>> THEN 0 ELSE 10 * int(SubSeq(s, 1, Len(s) - 1)) + DigitVal(s[Len(s)])

(***************************************************************************)
(* The email syntax check: re.match(r"^[^@\s]+@[^@\s]+\.[^@\s]+$", ...)    *)
(* run as a backtracking search over the pattern's six positions:          *)
(*   0 before the first local character      1 inside [^@\s]+ (local)      *)
(*   2 after "@"                             3 inside [^@\s]+ (domain)     *)
(*   4 after "\."                            5 inside the last [^@\s]+     *)
(* "$" matches at the end and before a final newline.                      *)
(***************************************************************************)
NotAtNotSpace(c) == c # "@" /\ c \notin Whitespace

RECURSIVE ReMatch(_, _, _)
ReMatch(s, i, q) ==
    LET more == i <= Len(s)
        plain == more /\ NotAtNotSpace(s[i])
    IN  CASE q = 0 -> plain /\ ReMatch(s, i + 1, 1)
          [] q = 1 -> \/ plain /\ ReMatch(s, i + 1, 1)
                      \/ more /\ s[i] = "@" /\ ReMatch(s, i + 1, 2)
          [] q = 2 -> plain /\ ReMatch(s, i + 1, 3)
          [] q = 3 -> \/ plain /\ ReMatch(s, i + 1, 3)
                      \/ more /\ s[i] = "." /\ ReMatch(s, i + 1, 4)
          [] q = 4 -> plain /\ ReMatch(s, i + 1, 5)
          [] q = 5 -> \/ plain /\ ReMatch(s, i + 1, 5)
                      \/ i = Len(s) + 1
                      \/ i = Len(s) /\ s[i] = "\n"

\* the local part's "+" written "*": an empty local part matches
EmailRegex_EmptyLocal(s) == ReMatch(s, 1, 1)

EmailRegex(s) == ReMatch(s, 1, 0)

\* app.py
looks_like_email(s) == EmailRegex(strip(OrEmpty(s)))

\* flask_app.py
email_ok(s) == EmailRegex(strip(OrEmpty(s)))

(***************************************************************************)
(* datetime.strptime(s, "%Y-%m-%d"): the format's regular expression       *)
(*   (\d\d\d\d)-(1[0-2]|0[1-9]|[1-9])-(3[01]|[12]\d|0[1-9]|[1-9]| [1-9])   *)
(* must match the whole string, and the fields must make a date.           *)
(***************************************************************************)
AllDigits(s) == \A i \in 1..Len(s) : s[i] \in AsciiDigits

MonthField(m) ==
    \/ Len(m) = 1 /\ m[1] \in AsciiDigits \ {"0"}
    \/ Len(m) = 2 /\ m[1] = "0" /\ m[2] \in AsciiDigits \ {"0"}
    \/ Len(m) = 2 /\ m[1] = "1" /\ m[2] \in {"0", "1", "2"}

DayField(d) ==
    \/ Len(d) = 1 /\ d[1] \in AsciiDigits \ {"0"}
    \/ Len(d) = 2 /\ d[1] \in {"0", " "} /\ d[2] \in AsciiDigits \ {"0"}
    \/ Len(d) = 2 /\ d[1] \in {"1", "2"} /\ d[2] \in AsciiDigits
    \/ Len(d) = 2 /\ d[1] = "3" /\ d[2] \in {"0", "1"}

IsLeap(y) == y % 4 = 0 /\ (y % 100 # 0 \/ y % 400 = 0)

DaysInMonth(y, m) ==
    IF m = 2 THEN (IF IsLeap(y) THEN 29 ELSE 28)
    ELSE IF m \in {4, 6, 9, 11} THEN 30 ELSE 31

\* the value of a month or day field (a leading space or zero counts nothing)
FieldVal(f) == int(SelectSeq(f, LAMBDA c : c # " "))

strptime_ok(s) ==
    \E lm \in 1..2, ld \in 1..2 :
        /\ Len(s) = 6 + lm + ld
        /\ AllDigits(SubSeq(s, 1, 4))
        /\ s[5] = "-"
        /\ s[6 + lm] = "-"
        /\ LET y == SubSeq(s, 1, 4)
               m == SubSeq(s, 6, 5 + lm)
               d == SubSeq(s, 7 + lm, 6 + lm + ld)
           IN  /\ MonthField(m)
               /\ DayField(d)
               /\ int(y) >= 1
               /\ FieldVal(d) <= DaysInMonth(int(y), FieldVal(m))

\* app.py
parse_date_or_none(s0) ==
    LET s == strip(OrEmpty(s0))
    IN  IF s = <<>> THEN None
        ELSE IF strptime_ok(s) THEN s
        ELSE None

(***************************************************************************)
(* The backing store: table students(student_id serial primary key,        *)
(* first_name, last_name, email unique, enrollment_date date null).        *)
(* A statement is a record; Execute gives the rows it leaves on the rows    *)
(* it runs on, its SQLSTATE ("00000": no error) and cursor.rowcount.        *)
(***************************************************************************)
Ids(rs) == {r.student_id : r \in rs}

RowOf(rs, id) == CHOOSE r \in rs : r.student_id = id

\* the date column takes NULL or a calendar date
StoreDateOk(d) == d = None \/ strptime_ok(d)

\* UNIQUE(email): some other row already holds the value
UniqueViolation(rs, email, id) ==
    \E r \in rs : r.email = email /\ r.student_id # id

MaxOf(S) == IF S = {} THEN 0 ELSE CHOOSE m \in S : \A x \in S : x <= m

StmtResult(rs, pgcode, rowcount) ==
    [rows |-> rs, pgcode |-> pgcode, rowcount |-> rowcount]

\* the value a statement's student_id expression gives: the column default
\* is the sequence's next value
NewId(rs, nid, expr) == IF expr = "DEFAULT" THEN nid ELSE MaxOf(Ids(rs)) + 1

\* the sequence after the statement has been sent: an INSERT that gets as
\* far as the column default draws a value, and the draw is never undone
Draws(nid, st) ==
    IF st.kind = "insert" /\ StoreDateOk(st.enrollment_date) /\ st.student_id = "DEFAULT"
    THEN nid + 1
    ELSE nid

ExecInsert(rs, id, st) ==
    LET row == [student_id |-> id, first_name |-> st.first_name,
                last_name |-> st.last_name, email |-> st.email,
                enrollment_date |-> st.enrollment_date]
    IN  IF ~StoreDateOk(st.enrollment_date)
        THEN StmtResult(rs, "22008", 0)
        ELSE IF id \in Ids(rs) \/ UniqueViolation(rs, st.email, id)
        THEN StmtResult(rs, "23505", 0)
        ELSE StmtResult(rs \cup {row}, "00000", 1)

\* the UPDATE without its WHERE clause
ExecUpdate_NoWhere(rs, id, st) ==
    LET after == {[r EXCEPT !.email = st.email] : r \in rs}
    IN  IF rs = {}
        THEN StmtResult(rs, "00000", 0)
        ELSE IF Cardinality(rs) > 1
        THEN StmtResult(rs, "23505", 0)
        ELSE StmtResult(after, "00000", Cardinality(rs))

ExecUpdate(rs, id, st) ==
    LET hit == {r \in rs : r.student_id = st.where_id}
        after == (rs \ hit) \cup {[r EXCEPT !.email = st.email] : r \in hit}
    IN  IF hit = {}
        THEN StmtResult(rs, "00000", 0)
        ELSE IF UniqueViolation(rs, st.email, st.where_id)
        THEN StmtResult(rs, "23505", 0)
        ELSE StmtResult(after, "00000", Cardinality(hit))

\* the DELETE without its WHERE clause
ExecDelete_NoWhere(rs, id, st) == StmtResult({}, "00000", Cardinality(rs))

ExecDelete(rs, id, st) ==
    LET hit == {r \in rs : r.student_id = st.where_id}
    IN  StmtResult(rs \ hit, "00000", Cardinality(hit))

\* cur.execute(st) on the rows rs; id is the value drawn for an INSERT
Execute(rs, id, st) ==
    CASE st.kind = "insert" -> ExecInsert(rs, id, st)
      [] st.kind = "update" -> ExecUpdate(rs, id, st)
      [] st.kind = "delete" -> ExecDelete(rs, id, st)
      [] st.kind = "select" -> StmtResult(rs, "00000", Cardinality(rs))

\* ORDER BY student_id
RECURSIVE OrderById(_)
OrderById(rs) ==
    IF rs = {} THEN <<>>
    ELSE LET r == CHOOSE x \in rs : \A y \in rs : x.student_id <= y.student_id
         IN  <<r>> \o OrderById(rs \ {r})

(***************************************************************************)
(* One `with get_conn() as conn, conn.cursor() as cur:` block around one    *)
(* statement.  get_conn() raises when the backend cannot be reached; the    *)
(* connection's exit commits when the block ends normally and rolls back    *)
(* when an exception leaves it.                                             *)
(***************************************************************************)
get_conn(up) == IF up THEN "connected" ELSE "psycopg2.Error"

\* the committed rows after the block around a statement with result r
conn_exit(before, r) == IF r.pgcode = "00000" THEN r.rows ELSE before

(***************************************************************************)
(* A handler's way to the store: it ends before any statement (Done: with   *)
(* a message, the error of the taxonomy it stands for; Raised: by an        *)
(* exception that leaves it, no message given), or it sends a statement     *)
(* (Run).  After the statement it ends with a message (Said) or by an       *)
(* exception (Escaped).                                                     *)
(***************************************************************************)
SelectSql == [kind |-> "select"]

Done(result) == [go |-> FALSE, result |-> result, exc |-> "none", st |-> SelectSql]

Raised(exc) == [go |-> FALSE, result |-> "Unhandled", exc |-> exc, st |-> SelectSql]

Run(st) == [go |-> TRUE, result |-> "none", exc |-> "none", st |-> st]

Said(result) == [result |-> result, exc |-> "none"]

Escaped(exc) == [result |-> "Unhandled", exc |-> exc]

\* a str in a condition
Truthy(s) == s # None /\ s # <<>>

(***************************************************************************)
(* The console adapter, app.py.                                            *)
(***************************************************************************)
\* .lower() left out
AppEmail_NoLower(raw) == strip(OrEmpty(raw))

\* (email or "").strip().lower()
AppEmail(raw) == lower(strip(OrEmpty(raw)))

\* the id computed as the largest id plus one instead of left to the sequence
AppInsertSql_MaxPlusOne(first, last_name, email, date) ==
    [kind |-> "insert", student_id |-> "MAX+1", first_name |-> first,
     last_name |-> last_name, email |-> email, enrollment_date |-> date]

AppInsertSql(first, last_name, email, date) ==
    [kind |-> "insert", student_id |-> "DEFAULT", first_name |-> first,
     last_name |-> last_name, email |-> email, enrollment_date |-> date]

AppUpdateSql(email, sid) == [kind |-> "update", email |-> email, where_id |-> sid]

AppDeleteSql(sid) == [kind |-> "delete", where_id |-> sid]

\* except psycopg2.Error as e: if e.pgcode == "23505"
AppAddError(pgcode) == IF pgcode = "23505" THEN "DuplicateEmail" ELSE "BackendError"

\* the unique violation not told apart from other errors
AppUpdateError_Generic(pgcode) == "BackendError"

AppUpdateError(pgcode) == IF pgcode = "23505" THEN "DuplicateEmail" ELSE "BackendError"

\* if cur.rowcount == 0
AppRowcount(rowcount) == IF rowcount = 0 THEN "NotFound" ELSE "Ok"

\* getAllStudents as far as cur.execute
getAllStudents(up) ==
    IF get_conn(up) # "connected"
    THEN Done("StoreUnavailable")
    ELSE Run(SelectSql)

\* getAllStudents after cur.execute
getAllStudents_exit(pgcode, rowcount) ==
    IF pgcode = "00000" THEN Said("Ok") ELSE Said("StoreUnavailable")

\* addStudent as far as cur.execute
addStudent(first_name, last_name, email0, enrollment_date, up) ==
    LET first == strip(OrEmpty(first_name))
        last_ == strip(OrEmpty(last_name))
        email == AppEmail(email0)
        date == parse_date_or_none(enrollment_date)
    IN  IF first = <<>> \/ last_ = <<>> \/ email = <<>>
        THEN Done("MissingField")
        ELSE IF ~looks_like_email(email)
        THEN Done("InvalidEmail")
        ELSE IF Truthy(enrollment_date) /\ date = None
        THEN Done("InvalidDate")
        ELSE IF get_conn(up) # "connected"
        THEN Done(AppAddError(""))
        ELSE Run(AppInsertSql(first, last_, email, date))

\* addStudent after cur.execute
addStudent_exit(pgcode, rowcount) ==
    IF pgcode = "00000" THEN Said("Ok") ELSE Said(AppAddError(pgcode))

updateStudentEmail(student_id, new_email, up) ==
    LET sid_raw == strip(student_id)
        email == AppEmail(new_email)
    IN  IF ~isdigit(sid_raw)
        THEN Done("InvalidId")
        ELSE IF IntRaises(sid_raw)
        THEN Raised("ValueError")
        ELSE IF ~looks_like_email(email)
        THEN Done("InvalidEmail")
        ELSE IF get_conn(up) # "connected"
        THEN Done(AppUpdateError(""))
        ELSE Run(AppUpdateSql(email, int(sid_raw)))

updateStudentEmail_exit(pgcode, rowcount) ==
    IF pgcode = "00000" THEN Said(AppRowcount(rowcount)) ELSE Said(AppUpdateError(pgcode))

deleteStudent(student_id, up) ==
    LET sid_raw == strip(student_id)
    IN  IF ~isdigit(sid_raw)
        THEN Done("InvalidId")
        ELSE IF IntRaises(sid_raw)
        THEN Raised("ValueError")
        ELSE IF get_conn(up) # "connected"
        THEN Done("BackendError")
        ELSE Run(AppDeleteSql(int(sid_raw)))

deleteStudent_exit(pgcode, rowcount) ==
    IF pgcode = "00000" THEN Said(AppRowcount(rowcount)) ELSE Said("BackendError")

(***************************************************************************)
(* The web adapter, flask_app.py.  A missing form field is None.            *)
(***************************************************************************)
\* .lower() left out
FlaskEmail_NoLower(raw) == strip(OrEmpty(raw))

\* (request.form.get(...) or "").strip().lower()
FlaskEmail(raw) == lower(strip(OrEmpty(raw)))

FlaskInsertSql(first, last_name, email, date) ==
    [kind |-> "insert", student_id |-> "DEFAULT", first_name |-> first,
     last_name |-> last_name, email |-> email, enrollment_date |-> date]

FlaskUpdateSql(email, sid) == [kind |-> "update", email |-> email, where_id |-> sid]

FlaskDeleteSql(sid) == [kind |-> "delete", where_id |-> sid]

FlaskAddError(pgcode) == IF pgcode = "23505" THEN "DuplicateEmail" ELSE "BackendError"

FlaskUpdateError(pgcode) == IF pgcode = "23505" THEN "DuplicateEmail" ELSE "BackendError"

\* the rowcount test the wrong way round
FlaskRowcount_Inverted(rowcount) == IF rowcount = 0 THEN "Ok" ELSE "NotFound"

\* if cur.rowcount == 0 ... else (update_email); if cur.rowcount ... else (delete)
FlaskRowcount(rowcount) == IF rowcount = 0 THEN "NotFound" ELSE "Ok"

\* index() and its fetch_all() as far as cur.execute
fetch_all(up) ==
    IF get_conn(up) # "connected"
    THEN Raised(get_conn(up))
    ELSE Run(SelectSql)

\* fetch_all() after cur.execute, and the page of index()
fetch_all_exit(pgcode, rowcount) ==
    IF pgcode = "00000" THEN Said("Ok") ELSE Escaped("psycopg2.Error")

\* the form checks of add(): what it flashes, or "pass"
add_check(first, last_, email) ==
    IF first = <<>> THEN "MissingField"
    ELSE IF last_ = <<>> THEN "MissingField"
    ELSE IF email = <<>> THEN "MissingField"
    ELSE IF ~email_ok(email) THEN "InvalidEmail"
    ELSE "pass"

\* (request.form.get("enrollment_date") or "").strip() or None
add_date(raw) == IF strip(OrEmpty(raw)) = <<>> THEN None ELSE strip(OrEmpty(raw))

\* add() as far as cur.execute
add(first_name, last_name, email0, enrollment_date, up) ==
    LET first == strip(OrEmpty(first_name))
        last_ == strip(OrEmpty(last_name))
        email == FlaskEmail(email0)
        date == add_date(enrollment_date)
    IN  IF add_check(first, last_, email) # "pass"
        THEN Done(add_check(first, last_, email))
        ELSE IF get_conn(up) # "connected"
        THEN Done(FlaskAddError(""))
        ELSE Run(FlaskInsertSql(first, last_, email, date))

add_exit(pgcode, rowcount) ==
    IF pgcode = "00000" THEN Said("Ok") ELSE Said(FlaskAddError(pgcode))

\* the form checks of update_email()
update_email_check(sid, email) ==
    IF ~isdigit(sid) THEN "InvalidId"
    ELSE IF ~email_ok(email) THEN "InvalidEmail"
    ELSE "pass"

\* int(sid) is evaluated inside the with block, after get_conn()
update_email(student_id, new_email, up) ==
    LET sid == strip(OrEmpty(student_id))
        email == FlaskEmail(new_email)
    IN  IF update_email_check(sid, email) # "pass"
        THEN Done(update_email_check(sid, email))
        ELSE IF get_conn(up) # "connected"
        THEN Done(FlaskUpdateError(""))
        ELSE IF IntRaises(sid)
        THEN Raised("ValueError")
        ELSE Run(FlaskUpdateSql(email, int(sid)))

update_email_exit(pgcode, rowcount) ==
    IF pgcode = "00000" THEN Said(FlaskRowcount(rowcount)) ELSE Said(FlaskUpdateError(pgcode))

\* no try/except around the with block
delete(student_id, up) ==
    LET sid == strip(OrEmpty(student_id))
    IN  IF ~isdigit(sid)
        THEN Done("InvalidId")
        ELSE IF get_conn(up) # "connected"
        THEN Raised(get_conn(up))
        ELSE IF IntRaises(sid)
        THEN Raised("ValueError")
        ELSE Run(FlaskDeleteSql(int(sid)))

delete_exit(pgcode, rowcount) ==
    IF pgcode = "00000" THEN Said(FlaskRowcount(rowcount)) ELSE Escaped("psycopg2.Error")

\* the handler a request is in, after its statement
Reply(rec, pgcode, rowcount) ==
    CASE rec.adapter = "console" /\ rec.op = "list" -> getAllStudents_exit(pgcode, rowcount)
      [] rec.adapter = "web" /\ rec.op = "list" -> fetch_all_exit(pgcode, rowcount)
      [] rec.adapter = "console" /\ rec.op = "add" -> addStudent_exit(pgcode, rowcount)
      [] rec.adapter = "console" /\ rec.op = "update" -> updateStudentEmail_exit(pgcode, rowcount)
      [] rec.adapter = "console" /\ rec.op = "delete" -> deleteStudent_exit(pgcode, rowcount)
      [] rec.adapter = "web" /\ rec.op = "add" -> add_exit(pgcode, rowcount)
      [] rec.adapter = "web" /\ rec.op = "update" -> update_email_exit(pgcode, rowcount)
      [] rec.adapter = "web" /\ rec.op = "delete" -> delete_exit(pgcode, rowcount)

(***************************************************************************)
(* Inputs.  A request as typed: an add is (first name, last name, email,    *)
(* date, the backend can be reached), an update-email (id, email, backend), *)
(* a delete (id, backend).                                                  *)
(***************************************************************************)
Alphabet == {"a", "@", ".", " ", "\n"}

Strings == UNION {[1..n -> Alphabet] : n \in 0..MaxLen}

DigitChar(n) ==
    CASE n = 0 -> "0" [] n = 1 -> "1" [] n = 2 -> "2" [] n = 3 -> "3"
      [] n = 4 -> "4" [] n = 5 -> "5" [] n = 6 -> "6" [] n = 7 -> "7"
      [] n = 8 -> "8" [] n = 9 -> "9"

UpperA == <<" ", "A", "@", "a", ".", "a">>

LowerB == <<"b", "@", "a", ".", "a">>

LowerC == <<"c", "@", "a", ".", "a">>

\* requests that pass the handlers' checks, the backend reachable
RaceAdds == {<<(<<"x">>), (<<"y">>), e, (<<>>), TRUE>> : e \in {UpperA, LowerB}}

RaceUpdates == {<<(<<DigitChar(n)>>), e, TRUE>> : n \in 1..MaxId, e \in {UpperA, LowerC}}

RaceDeletes == {<<(<<DigitChar(n)>>), TRUE>> : n \in 1..MaxId}

\* one request that passes and the requests that do not: a field missing,
\* an email or a date or an id not well formed, the backend unreachable
AddInputs ==
    {<<(<<" ", "x">>), (<<"y">>), UpperA, (<<>>), TRUE>>,
     <<(<<>>), (<<"y">>), UpperA, (<<>>), TRUE>>,
     <<(<<"x">>), (<<" ">>), UpperA, (<<>>), TRUE>>,
     <<(<<"x">>), (<<"y">>), (<<>>), (<<>>), TRUE>>,
     <<(<<"x">>), (<<"y">>), (<<"a", "@", "a">>), (<<>>), TRUE>>,
     <<(<<"x">>), (<<"y">>), UpperA,
       (<<"2", "0", "2", "0", "-", "0", "2", "-", "3", "0">>), TRUE>>,
     <<(<<"x">>), (<<"y">>), UpperA, (<<>>), FALSE>>}

UpdateInputs ==
    {<<(<<"1">>), LowerB, TRUE>>,
     <<(<<"-", "1">>), LowerB, TRUE>>,
     <<(<<"^2">>), LowerB, TRUE>>,
     <<(<<"1">>), (<<"a", "@", "a">>), TRUE>>,
     <<(<<"^2">>), (<<"a", "@", "a">>), TRUE>>,
     <<(<<"1">>), LowerB, FALSE>>,
     <<(<<"^2">>), LowerB, FALSE>>}

DeleteInputs ==
    {<<(<<"1">>), TRUE>>, <<(<<"-", "1">>), TRUE>>, <<(<<"^2">>), TRUE>>,
     <<(<<"1">>), FALSE>>, <<(<<"^2">>), FALSE>>}

(***************************************************************************)
(* State.  rows, nextId: the committed rows of the table and its id         *)
(* sequence.  everIds: every id a committed row has held.  console: the     *)
(* menu loop at its prompt ("menu"), in choice 2, 3 or 4 after the handler  *)
(* and before or in the getAllStudents() that ends the choice ("listing"),  *)
(* or the process ended by an exception ("crashed").                        *)
(* last: the request that the latest step ended, as typed, and what it      *)
(* gave (NoOp after a step that ended no request); met says                 *)
(* whether it met no other request in flight ("none"), ended after its      *)
(* rival had won ("won"), or met some other ("some"); wrote says whether    *)
(* the commit of its transaction changed the rows.                          *)
(* tx: per client (the console process, the threads of the web server) the  *)
(* request it is in, between cur.execute and the end of the with block:     *)
(* pc is "idle", "wait_row" or "wait_key" (cur.execute has not returned:    *)
(* the statement waits for a row lock, or has its row and is at the unique  *)
(* index), "open" (cur.execute returned, the transaction is not            *)
(* committed), "done" (the store has committed the transaction, the        *)
(* handler has not yet gone on after the with block) or "failed"           *)
(* (cur.execute raised, the with block has not rolled back); req the       *)
(* request as typed (with the rows a SELECT fetched), st the statement, id  *)
(* the value an INSERT drew, pgcode the SQLSTATE, rowcount the cursor's     *)
(* rowcount; before and after record, for a transaction the store has       *)
(* committed, the committed rows just before and just after that commit.    *)
(* rival: per client in flight, the one other client met in flight (its     *)
(* name), "won" once that one's write of the same email is committed (the   *)
(* client's own transaction not being committed by then),                   *)
(* "many" once more than one other request has been met.                    *)
(* subject, verdict: a string and what a syntax check said of it.           *)
(***************************************************************************)
Clients == {"console", "w1", "w2"}

NoOp ==
    [adapter |-> "none", op |-> "none", first |-> <<>>, last_name |-> <<>>,
     email |-> <<>>, date |-> <<>>, sid |-> <<>>, up |-> TRUE,
     result |-> "none", exc |-> "none", stmts |-> 0, listing |-> <<>>,
     met |-> "none", wrote |-> FALSE]

Idle ==
    [pc |-> "idle", req |-> NoOp, st |-> SelectSql, id |-> 0, pgcode |-> "00000",
     rowcount |-> 0, before |-> {}, after |-> {}]

InitStore ==
    /\ rows = {}
    /\ nextId = 1
    /\ everIds = {}
    /\ console = "menu"
    /\ last = NoOp
    /\ tx = [c \in Clients |-> Idle]
    /\ rival = [c \in Clients |-> "none"]

Init ==
    /\ InitStore
    /\ subject = <<>>
    /\ verdict = [by |-> "none", ok |-> FALSE]

(***************************************************************************)
(* Statements of transactions that run together (READ COMMITTED).  A        *)
(* statement sees the committed rows.  An UPDATE or DELETE locks the row    *)
(* it hits until its transaction ends; a transaction that writes an email   *)
(* or removes a row's email holds that value in the unique index until it   *)
(* ends.  A statement that needs a locked row or a held value waits for     *)
(* the holder to end and then runs on what is committed.  A statement that  *)
(* fails ends its transaction in the store at once (what it locked and      *)
(* held is free); the ROLLBACK the client sends afterwards changes nothing. *)
(* A SELECT waits for nothing.                                              *)
(***************************************************************************)
Busy(c) == tx[c].pc # "idle"

Others(c) == Clients \ {c}

\* the rows client o has locked: it updated or deleted the row (an UPDATE
\* that waits for an index value has locked its row already)
Locked(o) ==
    IF /\ tx[o].st.kind \in {"update", "delete"}
       /\ \/ tx[o].pc = "open" /\ tx[o].rowcount > 0
          \/ tx[o].pc = "wait_key"
    THEN {tx[o].st.where_id}
    ELSE {}

\* the emails client o holds in the unique index
Held(o) ==
    IF tx[o].st.kind = "insert"
    THEN IF tx[o].pc = "open" THEN {tx[o].st.email} ELSE {}
    ELSE {r.email : r \in {x \in rows : x.student_id \in Locked(o)}}
         \cup (IF tx[o].st.kind = "update" /\ tx[o].pc = "open" /\ tx[o].rowcount > 0
               THEN {tx[o].st.email} ELSE {})

\* what keeps the statement st of client c from returning: a row lock
\* ("wait_row"), a held index value ("wait_key"), or nothing ("no")
Blocks(c, st) ==
    IF st.kind \in {"update", "delete"} /\ \E o \in Others(c) : st.where_id \in Locked(o)
    THEN "wait_row"
    ELSE IF st.kind = "insert" /\ ~StoreDateOk(st.enrollment_date)
    THEN "no"
    ELSE IF st.kind = "update" /\ st.where_id \notin Ids(rows)
    THEN "no"
    ELSE IF st.kind \in {"insert", "update"} /\ \E o \in Others(c) : st.email \in Held(o)
    THEN "wait_key"
    ELSE "no"

\* the clients the waiting client c waits for
WaitsFor(c) ==
    IF tx[c].pc = "wait_row"
    THEN {o \in Others(c) : tx[c].st.where_id \in Locked(o)}
    ELSE IF tx[c].pc = "wait_key"
    THEN {o \in Others(c) : tx[c].st.email \in Held(o)}
    ELSE {}

\* c waits for a client that, directly or through a third, waits for c
Deadlocked(c) ==
    \E o \in WaitsFor(c) : c \in WaitsFor(o) \/ \E p \in WaitsFor(o) : c \in WaitsFor(p)

\* cur.execute(st) by client c goes on: where the request is after it (pc
\* "failed": the statement raised), the SQLSTATE and the rowcount.  An UPDATE
\* first locks the row it hits (stage "lock") and then looks its new email
\* up in the unique index (stage "check").
Attempt(c, st, id, stage) ==
    LET b == Blocks(c, st)
        r == Execute(rows, id, st)
    IN  IF b = "wait_row"
        THEN [pc |-> "wait_row", pgcode |-> "00000", rowcount |-> 0]
        ELSE IF stage = "lock" /\ st.kind = "update" /\ st.where_id \in Ids(rows)
        THEN [pc |-> "wait_key", pgcode |-> "00000", rowcount |-> 0]
        ELSE IF b = "wait_key"
        THEN [pc |-> "wait_key", pgcode |-> "00000", rowcount |-> 0]
        ELSE [pc |-> IF r.pgcode = "00000" THEN "open" ELSE "failed",
              pgcode |-> r.pgcode, rowcount |-> r.rowcount]

\* the committed rows once the open transaction of client c has committed
Committed(c) ==
    IF tx[c].rowcount = 0
    THEN rows
    ELSE conn_exit(rows, Execute(rows, tx[c].id, tx[c].st))

(***************************************************************************)
(* rival, kept as requests begin and end.                                   *)
(***************************************************************************)
\* the request of client c is an add, or an update-email that found its row
Writes(c) ==
    /\ tx[c].req.op \in {"add", "update"}
    /\ ~(tx[c].pc \in {"open", "done"} /\ tx[c].rowcount = 0)

\* c and o write the same normalized email, not both to the same row
SameEmail(c, o) ==
    /\ Writes(c) /\ Writes(o)
    /\ lower(strip(tx[c].req.email)) = lower(strip(tx[o].req.email))
    /\ ~(/\ tx[c].req.op = "update" /\ tx[o].req.op = "update"
         /\ tx[c].st.where_id = tx[o].st.where_id)

\* rival after a step
Track ==
    rival' = [c \in Clients |->
        IF tx'[c].pc = "idle" THEN "none"
        ELSE IF ~Busy(c)
        THEN LET met == {o \in Others(c) : Busy(o)}
             IN  IF met = {} THEN "none"
                 ELSE IF Cardinality(met) = 1 THEN CHOOSE o \in met : TRUE
                 ELSE "many"
        ELSE IF \E x \in Others(c) : ~Busy(x) /\ tx'[x].pc # "idle"
        THEN IF rival[c] = "none"
             THEN CHOOSE x \in Others(c) : ~Busy(x) /\ tx'[x].pc # "idle"
             ELSE "many"
        ELSE IF \E o \in Others(c) :
                    /\ tx[o].pc = "open" /\ tx'[o].pc = "done"
                    /\ tx[c].pc # "done"
                    /\ rival[c] = o
                    /\ SameEmail(c, o)
        THEN "won"
        ELSE rival[c]]

(***************************************************************************)
(* The steps of a request.  The store is reached by blocking round trips:   *)
(* cur.execute sends the statement and returns when the store has run it,   *)
(* the end of the with block sends the commit or, when cur.execute raised,  *)
(* the rollback; the requests of the other clients run in between.          *)
(* Call: the handler runs up to and including the sending of its statement  *)
(* (an INSERT draws its id here, a SELECT reads the committed rows); the    *)
(* handler ends in this step only when it sends no statement.  Resume: a    *)
(* statement that the store made wait goes on.  Abort: the store ends a     *)
(* deadlock by failing one of the statements (SQLSTATE 40P01).  Commit:     *)
(* the with block ends normally and the store commits the transaction.      *)
(* Return: the commit has returned and the handler goes on to its message   *)
(* and ends.                                                                *)
(* Rollback: the with block is left by the exception of cur.execute, the    *)
(* rollback returns and the handler's except clause (or, where there is     *)
(* none, the exception) ends the handler.  Finish: the handler returns, or  *)
(* an exception leaves it (on the console that ends the menu loop); choice  *)
(* 2, 3 or 4 of the menu goes on to its getAllStudents().  get_conn()       *)
(* opens a connection of the client's own and changes nothing in the        *)
(* store: it is part of Call.                                               *)
(***************************************************************************)
Finish(c, rec, out, stmts) ==
    /\ last' = [rec EXCEPT !.result = out.result, !.exc = out.exc, !.stmts = stmts,
                           !.met = IF rival[c] \in {"none", "won"} THEN rival[c]
                                   ELSE "some",
                           !.wrote = tx[c].before # tx[c].after]
    /\ console' = IF c # "console" THEN console
                  ELSE IF out.exc # "none" THEN "crashed"
                  ELSE IF rec.op = "list" THEN "menu"
                  ELSE "listing"

Call(c, rec, plan) ==
    /\ tx[c].pc = "idle"
    /\ plan.go => Cardinality({o \in Clients : Busy(o)}) < MaxFlight
    /\ IF ~plan.go
       THEN /\ Finish(c, rec, plan, 0)
            /\ UNCHANGED <<rows, nextId, everIds, tx>>
       ELSE LET st == plan.st
                id == IF st.kind = "insert" THEN NewId(rows, nextId, st.student_id) ELSE 0
                a == Attempt(c, st, id, "lock")
                fetched == IF st.kind = "select" THEN OrderById(rows) ELSE <<>>
            IN  /\ nextId' = Draws(nextId, st)
                /\ tx' = [tx EXCEPT ![c] = [pc |-> a.pc,
                                            req |-> [rec EXCEPT !.listing = fetched],
                                            st |-> st, id |-> id, pgcode |-> a.pgcode,
                                            rowcount |-> a.rowcount,
                                            before |-> {}, after |-> {}]]
                /\ last' = NoOp
                /\ UNCHANGED <<rows, everIds, console>>
    /\ Track
    /\ UNCHANGED <<subject, verdict>>

Resume(c) ==
    /\ tx[c].pc \in {"wait_row", "wait_key"}
    /\ LET a == Attempt(c, tx[c].st, tx[c].id,
                         IF tx[c].pc = "wait_row" THEN "lock" ELSE "check")
       IN  /\ a.pc # "wait_row"
           /\ tx[c].pc = "wait_key" => Blocks(c, tx[c].st) = "no"
           /\ tx' = [tx EXCEPT ![c].pc = a.pc, ![c].pgcode = a.pgcode,
                               ![c].rowcount = a.rowcount]
    /\ Track
    /\ last' = NoOp
    /\ UNCHANGED <<rows, nextId, everIds, console, subject, verdict>>

Abort(c) ==
    /\ tx[c].pc = "wait_key"
    /\ Deadlocked(c)
    /\ tx' = [tx EXCEPT ![c].pc = "failed", ![c].pgcode = "40P01", ![c].rowcount = 0]
    /\ Track
    /\ last' = NoOp
    /\ UNCHANGED <<rows, nextId, everIds, console, subject, verdict>>

Commit(c) ==
    /\ tx[c].pc = "open"
    /\ rows' = Committed(c)
    /\ everIds' = everIds \cup Ids(rows')
    /\ tx' = [tx EXCEPT ![c].pc = "done", ![c].before = rows, ![c].after = rows']
    /\ Track
    /\ last' = NoOp
    /\ UNCHANGED <<nextId, console, subject, verdict>>

Return(c) ==
    /\ tx[c].pc = "done"
    /\ Finish(c, tx[c].req, Reply(tx[c].req, "00000", tx[c].rowcount), 1)
    /\ tx' = [tx EXCEPT ![c] = Idle]
    /\ Track
    /\ UNCHANGED <<rows, nextId, everIds, subject, verdict>>

Rollback(c) ==
    /\ tx[c].pc = "failed"
    /\ Finish(c, tx[c].req, Reply(tx[c].req, tx[c].pgcode, 0), 1)
    /\ tx' = [tx EXCEPT ![c] = Idle]
    /\ Track
    /\ UNCHANGED <<rows, nextId, everIds, subject, verdict>>

\* the thread that serves the next web request: the first one free
Worker == IF tx["w1"].pc = "idle" THEN "w1" ELSE "w2"

(***************************************************************************)
(* The menu loop of app.py.  input(...).strip().  Choices 2, 3 and 4 run    *)
(* their handler and then, always, getAllStudents(): after the handler has  *)
(* ended the console is at "listing", where the only step it can take is    *)
(* that getAllStudents(), and it is back at the prompt when that has ended. *)
(* MenuView is getAllStudents() as choice 1 and as the end of choices 2 to  *)
(* 4.                                                                       *)
(***************************************************************************)
MenuView(Ups) ==
    /\ console \in {"menu", "listing"}
    /\ \E up \in Ups :
        Call("console", [NoOp EXCEPT !.adapter = "console", !.op = "list", !.up = up],
             getAllStudents(up))

MenuAdd(Ins) ==
    /\ console = "menu"
    /\ nextId <= MaxId
    /\ \E in \in Ins :
        Call("console",
             [NoOp EXCEPT !.adapter = "console", !.op = "add", !.first = in[1],
                          !.last_name = in[2], !.email = in[3], !.date = in[4],
                          !.up = in[5]],
             addStudent(strip(in[1]), strip(in[2]), strip(in[3]), strip(in[4]), in[5]))

MenuUpdate(Ins) ==
    /\ console = "menu"
    /\ \E in \in Ins :
        Call("console",
             [NoOp EXCEPT !.adapter = "console", !.op = "update", !.sid = in[1],
                          !.email = in[2], !.up = in[3]],
             updateStudentEmail(strip(in[1]), strip(in[2]), in[3]))

\* delete asks for the id twice; a different second entry cancels
MenuDelete(Ins) ==
    /\ console = "menu"
    /\ \E in \in Ins, same \in BOOLEAN :
        Call("console",
             [NoOp EXCEPT !.adapter = "console", !.op = "delete", !.sid = in[1],
                          !.up = in[2]],
             IF same THEN deleteStudent(strip(in[1]), in[2]) ELSE Done("Cancelled"))

(***************************************************************************)
(* The routes of flask_app.py.                                              *)
(***************************************************************************)
GetIndex(Ups) ==
    \E up \in Ups :
        Call(Worker, [NoOp EXCEPT !.adapter = "web", !.op = "list", !.up = up],
             fetch_all(up))

PostAdd(Ins) ==
    /\ nextId <= MaxId
    /\ \E in \in Ins :
        Call(Worker,
             [NoOp EXCEPT !.adapter = "web", !.op = "add", !.first = in[1],
                          !.last_name = in[2], !.email = in[3], !.date = in[4],
                          !.up = in[5]],
             add(in[1], in[2], in[3], in[4], in[5]))

PostUpdateEmail(Ins) ==
    \E in \in Ins :
        Call(Worker,
             [NoOp EXCEPT !.adapter = "web", !.op = "update", !.sid = in[1],
                          !.email = in[2], !.up = in[3]],
             update_email(in[1], in[2], in[3]))

PostDelete(Ins) ==
    \E in \in Ins :
        Call(Worker,
             [NoOp EXCEPT !.adapter = "web", !.op = "delete", !.sid = in[1],
                          !.up = in[2]],
             delete(in[1], in[2]))

(***************************************************************************)
(* Spec: the console and two threads of the web server, every handler, on   *)
(* one request that passes and on the requests that fail.  No two           *)
(* statements of these requests wait for each other, so no deadlock is to   *)
(* be ended.                                                                *)
(***************************************************************************)
Next ==
    \/ MenuView(BOOLEAN)
    \/ MenuAdd(AddInputs)
    \/ MenuUpdate(UpdateInputs)
    \/ MenuDelete(DeleteInputs)
    \/ GetIndex(BOOLEAN)
    \/ PostAdd(AddInputs)
    \/ PostUpdateEmail(UpdateInputs)
    \/ PostDelete(DeleteInputs)
    \/ \E c \in Clients : Resume(c)
    \/ \E c \in Clients : Commit(c)
    \/ \E c \in Clients : Return(c)
    \/ \E c \in Clients : Rollback(c)

Spec == Init /\ [][Next]_vars

(***************************************************************************)
(* The syntax checks alone, on every string of Strings.                     *)
(***************************************************************************)
InitValidate ==
    /\ InitStore
    /\ subject \in Strings
    /\ verdict = [by |-> "none", ok |-> FALSE]

CheckConsole ==
    /\ verdict.by = "none"
    /\ verdict' = [by |-> "looks_like_email", ok |-> looks_like_email(subject)]
    /\ UNCHANGED <<subject, rows, nextId, everIds, console, last, tx, rival>>

CheckWeb ==
    /\ verdict.by = "none"
    /\ verdict' = [by |-> "email_ok", ok |-> email_ok(subject)]
    /\ UNCHANGED <<subject, rows, nextId, everIds, console, last, tx, rival>>

NextValidate == CheckConsole \/ CheckWeb

SpecValidate == InitValidate /\ [][NextValidate]_vars

(***************************************************************************)
(* SpecRace: the same clients and handlers on the requests that reach the   *)
(* store, three emails and every id, running together.                      *)
(***************************************************************************)
NextRace ==
    \/ MenuView({TRUE})
    \/ MenuAdd(RaceAdds)
    \/ MenuUpdate(RaceUpdates)
    \/ MenuDelete(RaceDeletes)
    \/ GetIndex({TRUE})
    \/ PostAdd(RaceAdds)
    \/ PostUpdateEmail(RaceUpdates)
    \/ PostDelete(RaceDeletes)
    \/ \E c \in Clients : Resume(c)
    \/ \E c \in Clients : Commit(c)
    \/ \E c \in Clients : Return(c)
    \/ \E c \in Clients : Rollback(c)
    \/ \E c \in Clients : Abort(c)

SpecRace == Init /\ [][NextRace]_vars

(***************************************************************************)
(* Vocabulary of the properties, stated apart from the adapters' code.      *)
(***************************************************************************)
\* the normalized email: trimmed, lower-cased
Normalized(raw) == lower(strip(raw))

\* an unsigned decimal integer literal, after trimming
PlainInteger(raw) == strip(raw) # <<>> /\ AllDigits(strip(raw))

ValidName(raw) == strip(raw) # <<>>

ValidEmail(raw) == EmailRegex(Normalized(raw))

BlankDate(raw) == strip(raw) = <<>>

UniqueEmails(rs) ==
    \A r1, r2 \in rs : r1.email = r2.email => r1.student_id = r2.student_id

\* some row other than id holds the email
HeldByOther(rs, email, id) == \E r \in rs : r.email = email /\ r.student_id # id

\* this step ends the request of client c: the handler returns or is left
Ends(c) == tx[c].pc # "idle" /\ tx'[c].pc = "idle"

\* the store commits the transaction of client c in this step
Commits(c) == tx[c].pc = "open" /\ tx'[c].pc = "done"

\* this step ends a request: last' is that request
Served ==
    \/ \E c \in Clients : Ends(c)
    \/ tx' = tx /\ <<rows, nextId, last, console>>' # <<rows, nextId, last, console>>

\* the request this step ends met no other request in flight while it ran
Alone == \A c \in Clients : Ends(c) => rival[c] = "none"

\* the committed rows just before and just after the transaction of the
\* request this step ends was ended in the store (a transaction that was
\* rolled back, and a request without one, changed nothing)
Before ==
    IF \E c \in Clients : Ends(c) /\ tx[c].pc = "done"
    THEN tx[CHOOSE c \in Clients : Ends(c)].before
    ELSE rows

After ==
    IF \E c \in Clients : Ends(c) /\ tx[c].pc = "done"
    THEN tx[CHOOSE c \in Clients : Ends(c)].after
    ELSE rows

\* the request this step ends is an add whose fields pass validation, with
\* the backend reachable
AddReaches ==
    /\ Served
    /\ last'.op = "add"
    /\ ValidName(last'.first)
    /\ ValidName(last'.last_name)
    /\ ValidEmail(last'.email)
    /\ BlankDate(last'.date) \/ strptime_ok(strip(last'.date))
    /\ last'.up

\* an update-email whose id and email pass validation, backend reachable
UpdateReaches ==
    /\ Served
    /\ last'.op = "update"
    /\ PlainInteger(last'.sid)
    /\ ValidEmail(last'.email)
    /\ last'.up

\* a delete whose id passes validation (and, on the console, was confirmed),
\* backend reachable
DeleteReaches ==
    /\ Served
    /\ last'.op = "delete"
    /\ PlainInteger(last'.sid)
    /\ last'.result # "Cancelled"
    /\ last'.up

TargetId == int(strip(last'.sid))

\* the id and the normalized email of the request client c is in
IdOf(c) == int(strip(tx[c].req.sid))

EmailOf(c) == Normalized(tx[c].req.email)

(***************************************************************************)
(* C2.  After every step, whatever requests run together, no two rows hold  *)
(* the same email; and an add or an update-email in a sequence of           *)
(* operations (it met no other request in flight) that reaches the store    *)
(* with an email another row holds (the update's own row existing) ends     *)
(* with DuplicateEmail, and its transaction left the rows as they were.     *)
(***************************************************************************)
C2_WouldDuplicate ==
    \/ AddReaches /\ Alone /\ HeldByOther(Before, Normalized(last'.email), 0)
    \/ /\ UpdateReaches
       /\ Alone
       /\ TargetId \in Ids(Before)
       /\ HeldByOther(Before, Normalized(last'.email), TargetId)

C2_EmailsStayUnique ==
    [][/\ UniqueEmails(rows')
       /\ C2_WouldDuplicate =>
              /\ last'.result = "DuplicateEmail"
              /\ After = Before /\ rows = Before /\ rows' = rows]_vars

\* an update-email that met no other request was refused as a duplicate:
\* its row keeps its email, another row holds the email asked for
C2_Witness ==
    /\ last.op = "update"
    /\ last.met = "none"
    /\ last.result = "DuplicateEmail"
    /\ ~last.wrote
    /\ Cardinality(rows) = 2
    /\ \E r \in rows : /\ r.student_id # int(strip(last.sid))
                       /\ r.email = Normalized(last.email)

(***************************************************************************)
(* C3.  Ids are never reused or reassigned, whatever requests run           *)
(* together: a row id appears only when the store commits the INSERT of an  *)
(* add, one id in a step, the id that INSERT drew, and no row has held it   *)
(* before (deleted rows included); every row that stays keeps its id with   *)
(* its names and date; an add whose INSERT was committed ends with          *)
(* success, and an add that ends with success has committed a row.          *)
(***************************************************************************)
C3_IdsNeverReused ==
    [][/\ \A id \in Ids(rows') \ Ids(rows) :
              /\ id \notin everIds
              /\ \E c \in Clients :
                     Commits(c) /\ tx[c].req.op = "add" /\ tx[c].id = id
       /\ Cardinality(Ids(rows') \ Ids(rows)) <= 1
       /\ Cardinality(rows') = Cardinality(Ids(rows'))
       /\ \A r \in rows : r.student_id \in Ids(rows') =>
              [RowOf(rows', r.student_id) EXCEPT !.email = r.email] = r
       /\ \A c \in Clients :
              (Ends(c) /\ tx[c].req.op = "add") =>
                  (last'.result = "Ok" <=>
                       /\ tx[c].pc = "done"
                       /\ Ids(tx[c].after) \ Ids(tx[c].before) = {tx[c].id}
                       /\ tx[c].id \in everIds)]_vars

\* an add succeeded after some row had been deleted, and its row came in
\* below an id committed before it
C3_Witness ==
    /\ last.op = "add"
    /\ last.result = "Ok"
    /\ last.wrote
    /\ everIds \ Ids(rows) # {}
    /\ \E r \in rows : /\ r.email = Normalized(last.email)
                       /\ r.student_id \notin everIds \ Ids(rows)
                       /\ \E d \in everIds : r.student_id < d

(***************************************************************************)
(* C4.  The commit of an update-email changes at most the email of the row  *)
(* with its id, to the normalized (trimmed, lower-cased) email, whatever    *)
(* requests run together.  In a sequence of operations (it met no other     *)
(* request in flight): on an existing id whose new email no other row       *)
(* holds, it succeeds, the row's email becomes the normalized email, its    *)
(* other fields and every other row stay, and the listing shows it; on an   *)
(* id no row has, it ends with NotFound and no row changes.                 *)
(***************************************************************************)
C4_UpdateEmailFrame ==
    [][/\ \A c \in Clients :
              (Commits(c) /\ tx[c].req.op = "update") =>
                  /\ \A r \in rows' \ rows :
                         \E o \in rows : /\ o.student_id = IdOf(c)
                                         /\ r = [o EXCEPT !.email = EmailOf(c)]
                  /\ \A r \in rows \ rows' : r.student_id = IdOf(c)
       /\ (UpdateReaches /\ Alone) =>
              /\ rows = After /\ rows' = rows
              /\ IF TargetId \in Ids(Before)
                 THEN ~HeldByOther(Before, Normalized(last'.email), TargetId) =>
                        LET old == RowOf(Before, TargetId)
                            new == [old EXCEPT !.email = Normalized(last'.email)]
                            shown == OrderById(rows')
                        IN  /\ last'.result = "Ok"
                            /\ After = (Before \ {old}) \cup {new}
                            /\ \E i \in 1..Len(shown) : shown[i] = new
                 ELSE last'.result = "NotFound" /\ After = Before]_vars

\* an update-email typed in upper case, which met no other request,
\* succeeded and changed the email of its row beside another row
C4_Witness ==
    /\ last.op = "update"
    /\ last.met = "none"
    /\ last.result = "Ok"
    /\ last.wrote
    /\ last.email # Normalized(last.email)
    /\ Cardinality(rows) = 2
    /\ \E r \in rows : r.student_id = int(strip(last.sid)) /\ r.email = Normalized(last.email)

(***************************************************************************)
(* C5.  The commit of a delete removes at most the row with its id,         *)
(* whatever requests run together.  In a sequence of operations (it met no  *)
(* other request in flight): on an existing id it succeeds and removes      *)
(* exactly that row, which the listing no longer shows; on an id no row     *)
(* has, the id of a row deleted before included, it ends with NotFound and  *)
(* leaves the rows as they were.                                            *)
(***************************************************************************)
C5_DeleteThenNotFound ==
    [][/\ \A c \in Clients :
              (Commits(c) /\ tx[c].req.op = "delete") =>
                  /\ rows' \subseteq rows
                  /\ \A r \in rows \ rows' : r.student_id = IdOf(c)
       /\ (DeleteReaches /\ Alone) =>
              /\ rows = After /\ rows' = rows
              /\ IF TargetId \in Ids(Before)
                 THEN LET shown == OrderById(rows')
                      IN  /\ last'.result = "Ok"
                          /\ After = Before \ {RowOf(Before, TargetId)}
                          /\ \A i \in 1..Len(shown) : shown[i].student_id # TargetId
                 ELSE last'.result = "NotFound" /\ After = Before]_vars

\* a delete of an id deleted before, which met no other request, ended
\* with NotFound, another row present
C5_Witness ==
    /\ last.op = "delete"
    /\ last.met = "none"
    /\ last.result = "NotFound"
    /\ ~last.wrote
    /\ PlainInteger(last.sid)
    /\ int(strip(last.sid)) \in everIds \ Ids(rows)
    /\ rows # {}

(***************************************************************************)
(* C6.  Every stored email is trimmed and in lower case; and an add that    *)
(* reaches the store with an email that differs only by letter case or      *)
(* surrounding blanks from one stored when its transaction ended ends with  *)
(* DuplicateEmail and has stored nothing.                                   *)
(***************************************************************************)
C6_EmailsLowerCased ==
    [][/\ \A r \in rows' : r.email = lower(r.email) /\ r.email = strip(r.email)
       /\ (/\ AddReaches
           /\ \E r \in Before : r.email # last'.email /\ r.email = Normalized(last'.email))
          => last'.result = "DuplicateEmail" /\ After = Before]_vars

\* an add typed in upper case was refused: the lower-case email is stored
C6_Witness ==
    /\ last.op = "add"
    /\ last.result = "DuplicateEmail"
    /\ ~last.wrote
    /\ last.email # Normalized(last.email)
    /\ \E r \in rows : r.email = Normalized(last.email)

(***************************************************************************)
(* C10.  The transaction of a request that ends in anything but success     *)
(* changed no row; the rows change only in the step in which the store      *)
(* commits a transaction, and a commit that changes them is the commit of   *)
(* an add, update-email or delete that then ends with success.  A listing   *)
(* changes no row and shows only rows of ids that were committed; one that  *)
(* met no other request in flight shows exactly the committed rows.         *)
(***************************************************************************)
C10_FailureLeavesRows ==
    [][/\ (Served /\ last'.result # "Ok") => After = Before /\ rows' = rows
       /\ (\A c \in Clients : ~Commits(c)) => rows' = rows
       /\ \A c \in Clients :
              (Ends(c) /\ tx[c].before # tx[c].after) =>
                  last'.op \in {"add", "update", "delete"} /\ last'.result = "Ok"
       /\ (Served /\ last'.op = "list" /\ last'.result = "Ok") =>
              /\ After = Before /\ rows' = rows
              /\ \A i \in 1..Len(last'.listing) :
                     last'.listing[i].student_id \in everIds
              /\ Alone => last'.listing = OrderById(rows)]_vars

\* the store refused a statement of the web adapter, rows present
C10_Witness ==
    /\ last.adapter = "web"
    /\ last.result = "BackendError"
    /\ last.stmts = 1
    /\ ~last.wrote
    /\ rows # {}

(***************************************************************************)
(* C1.  Two requests in flight together, no third one beside them, that     *)
(* write the same normalized email (add, its date blank or a calendar       *)
(* date, or update-email; an update on a row it found; two updates on       *)
(* different ids): once the store has committed one of them the other ends  *)
(* with DuplicateEmail, its transaction having changed no row; and in       *)
(* every state no two committed rows hold the same email.                   *)
(***************************************************************************)
C1_OneWriteWins ==
    [][/\ UniqueEmails(rows')
       /\ \A c \in Clients :
              (/\ Ends(c)
               /\ Writes(c)
               /\ BlankDate(tx[c].req.date) \/ strptime_ok(strip(tx[c].req.date))
               /\ rival[c] = "won")
              => /\ last'.result = "DuplicateEmail"
                 /\ tx[c].pc = "failed"]_vars

\* two update-emails on different rows raced for an email no row held: the
\* store has committed one, which has not yet returned, and the other was
\* refused and has changed nothing
C1_Witness ==
    /\ last.op = "update"
    /\ last.met = "won"
    /\ last.result = "DuplicateEmail"
    /\ ~last.wrote
    /\ Cardinality(rows) = 2
    /\ \E o \in Clients :
           /\ tx[o].pc = "done"
           /\ tx[o].req.op = "update"
           /\ EmailOf(o) = Normalized(last.email)
           /\ IdOf(o) # int(strip(last.sid))
           /\ \A r \in tx[o].before : r.email # EmailOf(o)
           /\ \E r \in rows : r.student_id = IdOf(o) /\ r.email = EmailOf(o)

(***************************************************************************)
(* C7.  As claimed: the check is true iff the string has exactly one "@",   *)
(* no whitespace, and a "." after the "@".                                  *)
(***************************************************************************)
AtCount(s) == Cardinality({i \in 1..Len(s) : s[i] = "@"})

NoWhitespace(s) == \A i \in 1..Len(s) : s[i] \notin Whitespace

AtIndex(s) == CHOOSE i \in 1..Len(s) : s[i] = "@"

C7_Original ==
    verdict.by # "none" =>
        (verdict.ok <=> /\ AtCount(subject) = 1
                        /\ NoWhitespace(subject)
                        /\ \E j \in 1..Len(subject) :
                               j > AtIndex(subject) /\ subject[j] = ".")

(***************************************************************************)
(* C7, amended.  The check is true iff the string, trimmed of leading and   *)
(* trailing whitespace, has exactly one "@" with at least one character     *)
(* before it, no whitespace, and after the "@" a "." that neither follows   *)
(* the "@" directly nor ends the string.                                    *)
(***************************************************************************)
C7_EmailSyntax ==
    verdict.by # "none" =>
        (verdict.ok <=> LET s == strip(subject)
                        IN  /\ AtCount(s) = 1
                            /\ NoWhitespace(s)
                            /\ AtIndex(s) > 1
                            /\ \E j \in 1..Len(s) :
                                   /\ s[j] = "."
                                   /\ j > AtIndex(s) + 1
                                   /\ j < Len(s))

\* a string with whitespace around it passed the web adapter's check
C7_Witness ==
    /\ verdict.by = "email_ok"
    /\ verdict.ok
    /\ subject # strip(subject)

(***************************************************************************)
(* C8.  As claimed, for both adapters: an add whose names and email pass    *)
(* validation, with a date that is not blank and is no YYYY-MM-DD date,     *)
(* ends with InvalidDate and no statement issued; with a blank date it is   *)
(* accepted, and a row it stores has a null enrollment_date.                *)
(***************************************************************************)
C8_DateValidated ==
    (/\ last.op = "add"
     /\ ValidName(last.first)
     /\ ValidName(last.last_name)
     /\ ValidEmail(last.email)) =>
        /\ (~BlankDate(last.date) /\ ~strptime_ok(strip(last.date))) =>
               last.result = "InvalidDate" /\ last.stmts = 0
        /\ BlankDate(last.date) =>
               /\ last.result \notin {"InvalidDate", "MissingField", "InvalidEmail"}
               /\ last.result = "Ok" =>
                      \E r \in rows : /\ r.email = Normalized(last.email)
                                      /\ r.enrollment_date = None

(***************************************************************************)
(* C9.  As claimed: every request ends with a message and the interface     *)
(* ready again, no exception escaping; a listing gives the empty sequence   *)
(* when the backend cannot be reached; an id that is no plain integer       *)
(* literal is refused with InvalidId.                                       *)
(***************************************************************************)
C9_NoErrorEscapes ==
    last.op # "none" =>
        /\ last.exc = "none"
        /\ last.result # "Unhandled"
        /\ console # "crashed"
        /\ (last.op = "list" /\ ~last.up) => last.listing = <<>> /\ last.exc = "none"
        /\ (/\ last.op \in {"update", "delete"}
            /\ last.result # "Cancelled"
            /\ ~PlainInteger(last.sid)) => last.result = "InvalidId"

====
